---- MODULE Spec2Model ----
(***************************************************************************)
(* Named semaphores (leases) of sonar-core: the facade SemaphoresImpl over *)
(* the lease store (SemaphoreDao) and the lease renewer (SemaphoreUpdater).*)
(* Several memory-isolated processes share one store; each process has its *)
(* own renewer.  Time is a global clock counted in seconds.                *)
(*                                                                         *)
(* The Bitbucket project-creation page of sonar-web: the React component   *)
(* BitbucketProjectCreate, its state, its mounted flag and the API calls   *)
(* it has started and whose responses have not arrived yet.                *)
(***************************************************************************)
EXTENDS Integers, Sequences, FiniteSets, TLC

\* ------------------------------------------------------------------ bounds
MaxTime == 2
MaxLiveTime == 3

Procs == {"P1", "P2"}
ValidNames == {"job-x"}
Names == ValidNames \cup {""}
\* the maxAgeInSeconds and updatePeriodInSeconds the callers pass: a period
\* below, equal to and above the max age all occur
MaxAges == {1, 2}
Periods == {1, 2}

VARIABLES
  now,            \* the clock of the store, in seconds
  store,          \* name -> lease record (shared by all processes)
  registry,       \* process -> name -> renewal task of that process's renewer
  inflight,       \* process -> name -> a renewal tick has fired and not yet landed
  handle,         \* process -> name -> the handle the last acquire returned
  lastOp,         \* the last facade call or landed renewal tick, and its outcome
  lifecycle,      \* BitbucketProjectCreate: "constructed", "mounted" or "unmounted"
  mounted,        \* BitbucketProjectCreate.mounted
  state,          \* BitbucketProjectCreate.state
  pending,        \* the API calls of the component that await their response
  onProjectCreate, \* the number of calls of props.onProjectCreate
  searchLog       \* the query of the last handleSearch; whether a search failed

componentVars == <<lifecycle, mounted, state, pending, onProjectCreate, searchLog>>

vars == <<now, store, registry, inflight, handle, lastOp,
          lifecycle, mounted, state, pending, onProjectCreate, searchLog>>

\* ------------------------------------------------------------ lease store
Absent == [present |-> FALSE, createdAt |-> 0, updatedAt |-> 0]

Lease(created, updated) ==
  [present |-> TRUE, createdAt |-> created, updatedAt |-> updated]

\* InvalidName: an empty name is rejected before any storage call
ValidName(name) == name # ""

\* a lease is reclaimable when now - updatedAt > maxAge
Reclaimable(rec, maxAge, t) == t - rec.updatedAt > maxAge

\* tryAcquire(name, maxAge): one atomic storage transaction
tryAcquire(rec, maxAge, t) ==
  IF ~rec.present
    THEN [acquired |-> TRUE, rec |-> Lease(t, t)]
    ELSE IF Reclaimable(rec, maxAge, t)
      THEN [acquired |-> TRUE, rec |-> Lease(rec.createdAt, t)]
      ELSE [acquired |-> FALSE, rec |-> rec]

\* the store's part of the non-expiring variant: create the record unless it
\* exists; an existing record is never reclaimed by this call
tryAcquireNoExpiry(rec, t) ==
  IF ~rec.present
    THEN [acquired |-> TRUE, rec |-> Lease(t, t)]
    ELSE [acquired |-> FALSE, rec |-> rec]


\* a touch that writes the record whether or not it exists
touch_creating(rec, t) ==
  IF rec.present
    THEN [ok |-> TRUE, rec |-> Lease(rec.createdAt, t)]
    ELSE [ok |-> TRUE, rec |-> Lease(t, t)]

\* touch(name): refresh updatedAt only if the record still exists
touch(rec, t) ==
  IF rec.present
    THEN [ok |-> TRUE, rec |-> Lease(rec.createdAt, t)]
    ELSE [ok |-> FALSE, rec |-> rec]

\* clear(name): remove the record; clearing an absent name is not an error
clear(rec) == Absent

\* dao.acquire(name, maxAgeInSeconds) as the facade sees it: the name check,
\* then the storage transaction, which may fail with StorageUnavailable
dao_acquire(rec, name, maxAge, t, fail) ==
  IF ~ValidName(name)
    THEN [error |-> "InvalidName", storage |-> <<>>, acquired |-> FALSE, rec |-> rec]
    ELSE IF fail
      THEN [error |-> "StorageUnavailable", storage |-> <<"tryAcquire">>,
            acquired |-> FALSE, rec |-> rec]
      ELSE [error |-> "none", storage |-> <<"tryAcquire">>,
            acquired |-> tryAcquire(rec, maxAge, t).acquired,
            rec |-> tryAcquire(rec, maxAge, t).rec]

\* dao.acquire(name)
dao_acquire_name(rec, name, t, fail) ==
  IF ~ValidName(name)
    THEN [error |-> "InvalidName", storage |-> <<>>, acquired |-> FALSE, rec |-> rec]
    ELSE IF fail
      THEN [error |-> "StorageUnavailable", storage |-> <<"tryAcquire">>,
            acquired |-> FALSE, rec |-> rec]
      ELSE [error |-> "none", storage |-> <<"tryAcquire">>,
            acquired |-> tryAcquireNoExpiry(rec, t).acquired,
            rec |-> tryAcquireNoExpiry(rec, t).rec]

\* dao.release(name)
dao_release(rec, name, fail) ==
  IF ~ValidName(name)
    THEN [error |-> "InvalidName", storage |-> <<>>, rec |-> rec]
    ELSE IF fail
      THEN [error |-> "StorageUnavailable", storage |-> <<"clear">>, rec |-> rec]
      ELSE [error |-> "none", storage |-> <<"clear">>, rec |-> clear(rec)]

\* ---------------------------------------------------------- lease renewer
NoTask == [active |-> FALSE, interval |-> 0, remaining |-> 0]

\* scheduleForUpdate(name, renewalInterval): begin a repeating timer for name
scheduleForUpdate(reg, name, period) ==
  [reg EXCEPT ![name] = [active |-> TRUE, interval |-> period, remaining |-> period]]

\* stopUpdate(name): stop further ticks; a no-op on an unscheduled name
stopUpdate(reg, name) == [reg EXCEPT ![name] = NoTask]

\* ------------------------------------------------------------------ handles
NoExpiry == 0
NoHandle == [returned |-> FALSE, acquired |-> FALSE, maxAge |-> 0]

\* the Semaphore object dao.acquire returns, kept by the caller
Handle(acquired, maxAge) ==
  [returned |-> TRUE, acquired |-> acquired, maxAge |-> maxAge]

\* what lastOp records of a call: the operation, its caller and name, how it
\* ended, the collaborator calls it made in order and the storage
\* transactions those calls executed
OpRecord(op, proc, name, outcome, acquired, calls, storage) ==
  [op |-> op, proc |-> proc, name |-> name, outcome |-> outcome, acquired |-> acquired,
   calls |-> calls, storage |-> storage]

NoOp == OpRecord("none", "", "", "none", FALSE, <<>>, <<>>)

\* -------------------------------------------------- component: construction
Undefined == "undefined"

\* constructor(props): bitbucketSetting is props.bitbucketSettings[0], which
\* is undefined while the list of settings is empty
constructor(hasSetting) ==
  /\ lifecycle = "constructed"
  /\ mounted = FALSE
  /\ state = [bitbucketSetting |-> hasSetting,
              importing |-> FALSE,
              loading |-> FALSE,
              patIsValid |-> Undefined,
              projects |-> Undefined,
              projectRepositories |-> Undefined,
              searching |-> FALSE,
              searchResults |-> Undefined,
              selectedRepository |-> FALSE,
              submittingToken |-> Undefined,
              tokenValidationFailed |-> FALSE]
  /\ pending = {}
  /\ onProjectCreate = 0
  /\ searchLog = [last |-> "none", failed |-> FALSE]

\* SemaphoresImpl(dao, updater) over an empty store
SemaphoresInit ==
  /\ now = 0
  /\ store = [n \in Names |-> Absent]
  /\ registry = [p \in Procs |-> [n \in Names |-> NoTask]]
  /\ inflight = [p \in Procs |-> [n \in Names |-> FALSE]]
  /\ handle = [p \in Procs |-> [n \in Names |-> NoHandle]]
  /\ lastOp = NoOp

Init == SemaphoresInit /\ constructor(TRUE)

\* ------------------------------------------------------------------ facade
\* acquire with the two int arguments swapped in the call of dao.acquire
acquire_swappedArgs(p, name, maxAgeInSeconds, updatePeriodInSeconds, fail) ==
  LET semaphore == dao_acquire(store[name], name, updatePeriodInSeconds, now, fail) IN
  IF semaphore.error # "none"
    THEN
      /\ lastOp' = OpRecord("acquire", p, name, semaphore.error, FALSE,
                            <<"dao.acquire">>, semaphore.storage)
      /\ UNCHANGED <<now, store, registry, inflight, handle>>
    ELSE
      /\ store' = [store EXCEPT ![name] = semaphore.rec]
      /\ registry' = [registry EXCEPT ![p] =
           scheduleForUpdate(@, name, updatePeriodInSeconds)]
      /\ handle' = [handle EXCEPT ![p][name] =
           Handle(semaphore.acquired, maxAgeInSeconds)]
      /\ lastOp' = OpRecord("acquire", p, name, "returned", semaphore.acquired,
                            <<"dao.acquire", "updater.scheduleForUpdate">>,
                            semaphore.storage)
      /\ UNCHANGED <<now, inflight>>

\* acquire with the renewal scheduled before dao.acquire is called
acquire_scheduleFirst(p, name, maxAgeInSeconds, updatePeriodInSeconds, fail) ==
  LET semaphore == dao_acquire(store[name], name, maxAgeInSeconds, now, fail) IN
  /\ registry' = [registry EXCEPT ![p] =
       scheduleForUpdate(@, name, updatePeriodInSeconds)]
  /\ IF semaphore.error # "none"
       THEN
         /\ lastOp' = OpRecord("acquire", p, name, semaphore.error, FALSE,
                               <<"updater.scheduleForUpdate", "dao.acquire">>,
                               semaphore.storage)
         /\ UNCHANGED <<now, store, inflight, handle>>
       ELSE
         /\ store' = [store EXCEPT ![name] = semaphore.rec]
         /\ handle' = [handle EXCEPT ![p][name] =
              Handle(semaphore.acquired, maxAgeInSeconds)]
         /\ lastOp' = OpRecord("acquire", p, name, "returned", semaphore.acquired,
                               <<"updater.scheduleForUpdate", "dao.acquire">>,
                               semaphore.storage)
         /\ UNCHANGED <<now, inflight>>

\* acquire without the call of updater.scheduleForUpdate
acquire_noSchedule(p, name, maxAgeInSeconds, updatePeriodInSeconds, fail) ==
  LET semaphore == dao_acquire(store[name], name, maxAgeInSeconds, now, fail) IN
  IF semaphore.error # "none"
    THEN
      /\ lastOp' = OpRecord("acquire", p, name, semaphore.error, FALSE,
                            <<"dao.acquire">>, semaphore.storage)
      /\ UNCHANGED <<now, store, registry, inflight, handle>>
    ELSE
      /\ store' = [store EXCEPT ![name] = semaphore.rec]
      /\ handle' = [handle EXCEPT ![p][name] =
           Handle(semaphore.acquired, maxAgeInSeconds)]
      /\ lastOp' = OpRecord("acquire", p, name, "returned", semaphore.acquired,
                            <<"dao.acquire">>, semaphore.storage)
      /\ UNCHANGED <<now, registry, inflight>>

\* SemaphoresImpl.acquire(name, maxAgeInSeconds, updatePeriodInSeconds)
acquire(p, name, maxAgeInSeconds, updatePeriodInSeconds, fail) ==
  LET semaphore == dao_acquire(store[name], name, maxAgeInSeconds, now, fail) IN
  IF semaphore.error # "none"
    THEN \* dao.acquire throws: nothing after line 38 runs
      /\ lastOp' = OpRecord("acquire", p, name, semaphore.error, FALSE,
                            <<"dao.acquire">>, semaphore.storage)
      /\ UNCHANGED <<now, store, registry, inflight, handle>>
    ELSE
      /\ store' = [store EXCEPT ![name] = semaphore.rec]
      \* line 39: scheduled whatever semaphore says
      /\ registry' = [registry EXCEPT ![p] =
           scheduleForUpdate(@, name, updatePeriodInSeconds)]
      /\ handle' = [handle EXCEPT ![p][name] =
           Handle(semaphore.acquired, maxAgeInSeconds)]
      /\ lastOp' = OpRecord("acquire", p, name, "returned", semaphore.acquired,
                            <<"dao.acquire", "updater.scheduleForUpdate">>,
                            semaphore.storage)
      /\ UNCHANGED <<now, inflight>>

\* acquire(name) that schedules a renewal as the three-argument variant does
acquireNoExpiry_scheduling(p, name, fail) ==
  LET semaphore == dao_acquire_name(store[name], name, now, fail) IN
  IF semaphore.error # "none"
    THEN
      /\ lastOp' = OpRecord("acquireNoExpiry", p, name, semaphore.error, FALSE,
                            <<"dao.acquire">>, semaphore.storage)
      /\ UNCHANGED <<now, store, registry, inflight, handle>>
    ELSE
      /\ store' = [store EXCEPT ![name] = semaphore.rec]
      /\ registry' = [registry EXCEPT ![p] = scheduleForUpdate(@, name, 1)]
      /\ handle' = [handle EXCEPT ![p][name] =
           Handle(semaphore.acquired, NoExpiry)]
      /\ lastOp' = OpRecord("acquireNoExpiry", p, name, "returned",
                            semaphore.acquired,
                            <<"dao.acquire", "updater.scheduleForUpdate">>,
                            semaphore.storage)
      /\ UNCHANGED <<now, inflight>>

\* SemaphoresImpl.acquire(name)
acquireNoExpiry(p, name, fail) ==
  LET semaphore == dao_acquire_name(store[name], name, now, fail) IN
  IF semaphore.error # "none"
    THEN
      /\ lastOp' = OpRecord("acquireNoExpiry", p, name, semaphore.error, FALSE,
                            <<"dao.acquire">>, semaphore.storage)
      /\ UNCHANGED <<now, store, registry, inflight, handle>>
    ELSE
      /\ store' = [store EXCEPT ![name] = semaphore.rec]
      /\ handle' = [handle EXCEPT ![p][name] =
           Handle(semaphore.acquired, NoExpiry)]
      /\ lastOp' = OpRecord("acquireNoExpiry", p, name, "returned",
                            semaphore.acquired, <<"dao.acquire">>,
                            semaphore.storage)
      /\ UNCHANGED <<now, registry, inflight>>

\* release with dao.release called before updater.stopUpdate
release_clearFirst(p, name, fail) ==
  LET cleared == dao_release(store[name], name, fail) IN
  /\ store' = [store EXCEPT ![name] = cleared.rec]
  /\ handle' = [handle EXCEPT ![p][name] = NoHandle]
  /\ IF cleared.error # "none"
       THEN
         /\ lastOp' = OpRecord("release", p, name, cleared.error, FALSE,
                               <<"dao.release">>, cleared.storage)
         /\ UNCHANGED registry
       ELSE
         /\ registry' = [registry EXCEPT ![p] = stopUpdate(@, name)]
         /\ lastOp' = OpRecord("release", p, name, "returned", FALSE,
                               <<"dao.release", "updater.stopUpdate">>,
                               cleared.storage)
  /\ UNCHANGED <<now, inflight>>

\* release without the call of dao.release
release_noClear(p, name, fail) ==
  /\ registry' = [registry EXCEPT ![p] = stopUpdate(@, name)]
  /\ handle' = [handle EXCEPT ![p][name] = NoHandle]
  /\ lastOp' = OpRecord("release", p, name, "returned", FALSE,
                        <<"updater.stopUpdate">>, <<>>)
  /\ UNCHANGED <<now, store, inflight>>


\* release that reports an error when the caller has no renewal task for name
release_failsOnUnscheduled(p, name, fail) ==
  LET cleared == dao_release(store[name], name, fail) IN
  IF ~registry[p][name].active
    THEN
      /\ lastOp' = OpRecord("release", p, name, "NotScheduled", FALSE,
                            <<"updater.stopUpdate">>, <<>>)
      /\ UNCHANGED <<now, store, registry, inflight, handle>>
    ELSE
      /\ registry' = [registry EXCEPT ![p] = stopUpdate(@, name)]
      /\ store' = [store EXCEPT ![name] = cleared.rec]
      /\ handle' = [handle EXCEPT ![p][name] = NoHandle]
      /\ lastOp' = OpRecord("release", p, name, "returned", FALSE,
                            <<"updater.stopUpdate", "dao.release">>,
                            cleared.storage)
      /\ UNCHANGED <<now, inflight>>


\* release without the call of updater.stopUpdate
release_noStop(p, name, fail) ==
  LET cleared == dao_release(store[name], name, fail) IN
  /\ store' = [store EXCEPT ![name] = cleared.rec]
  /\ handle' = [handle EXCEPT ![p][name] = NoHandle]
  /\ lastOp' = OpRecord("release", p, name,
                        IF cleared.error = "none" THEN "returned" ELSE cleared.error,
                        FALSE, <<"dao.release">>, cleared.storage)
  /\ UNCHANGED <<now, registry, inflight>>

\* SemaphoresImpl.release(name)
release(p, name, fail) ==
  LET cleared == dao_release(store[name], name, fail) IN
  \* line 48 has run when line 49 throws
  /\ registry' = [registry EXCEPT ![p] = stopUpdate(@, name)]
  /\ store' = [store EXCEPT ![name] = cleared.rec]
  \* the caller gives up its handle when it calls release
  /\ handle' = [handle EXCEPT ![p][name] = NoHandle]
  /\ lastOp' = OpRecord("release", p, name,
                        IF cleared.error = "none" THEN "returned" ELSE cleared.error,
                        FALSE, <<"updater.stopUpdate", "dao.release">>,
                        cleared.storage)
  /\ UNCHANGED <<now, inflight>>

\* ----------------------------------------------------------- renewal ticks
\* the timer of a scheduled task fires: a tick is in flight
TickFire(p, name) ==
  /\ registry[p][name].active
  /\ ~inflight[p][name]
  /\ registry[p][name].remaining = 0
  /\ inflight' = [inflight EXCEPT ![p][name] = TRUE]
  /\ registry' = [registry EXCEPT ![p][name].remaining =
       registry[p][name].interval]
  /\ UNCHANGED <<now, store, handle, lastOp>>


\* a tick that reports the loss but leaves the renewal task scheduled
TickLand_keepsTicking(p, name) ==
  LET touched == touch(store[name], now) IN
  /\ inflight[p][name]
  /\ inflight' = [inflight EXCEPT ![p][name] = FALSE]
  /\ store' = [store EXCEPT ![name] = touched.rec]
  /\ lastOp' = OpRecord("tick", p, name,
                        IF touched.ok THEN "returned" ELSE "LeaseLost",
                        FALSE, <<"dao.update">>, <<"touch">>)
  /\ UNCHANGED <<now, registry, handle>>

\* the tick in flight reaches the store: touch(name); on ok=false the renewer
\* stops the ticks for name and reports the loss
TickLand(p, name) ==
  LET touched == touch(store[name], now) IN
  /\ inflight[p][name]
  /\ inflight' = [inflight EXCEPT ![p][name] = FALSE]
  /\ store' = [store EXCEPT ![name] = touched.rec]
  /\ registry' = IF touched.ok THEN registry
                 ELSE [registry EXCEPT ![p] = stopUpdate(@, name)]
  /\ lastOp' = OpRecord("tick", p, name,
                        IF touched.ok THEN "returned" ELSE "LeaseLost",
                        FALSE, <<"dao.update">>, <<"touch">>)
  /\ UNCHANGED <<now, handle>>

\* ------------------------------------------------------------------- time
\* a second passes on a timer: its countdown to the next tick decreases
Elapse(task) ==
  IF task.active /\ task.remaining > 0
    THEN [task EXCEPT !.remaining = @ - 1]
    ELSE task

\* a second passes; renewal ticks may be late (scheduling pauses)
Advance ==
  /\ now < MaxTime
  /\ now' = now + 1
  /\ registry' = [p \in Procs |-> [n \in Names |-> Elapse(registry[p][n])]]
  /\ UNCHANGED <<store, inflight, handle, lastOp>>
  /\ UNCHANGED componentVars

\* a second passes with live renewers: no tick is due or in flight
AdvanceTimely ==
  /\ \A p \in Procs, n \in Names :
       /\ ~inflight[p][n]
       /\ registry[p][n].active => registry[p][n].remaining > 0
  /\ now < MaxLiveTime
  /\ now' = now + 1
  /\ registry' = [p \in Procs |-> [n \in Names |-> Elapse(registry[p][n])]]
  /\ UNCHANGED <<store, inflight, handle, lastOp>>
  /\ UNCHANGED componentVars

\* the calls of the facade when the store answers and the name is valid
DoAcquire ==
  \E p \in Procs, n \in ValidNames, m \in MaxAges, i \in Periods :
    acquire(p, n, m, i, FALSE) /\ UNCHANGED componentVars

DoAcquireNoExpiry ==
  \E p \in Procs, n \in ValidNames :
    acquireNoExpiry(p, n, FALSE) /\ UNCHANGED componentVars

DoRelease ==
  \E p \in Procs, n \in ValidNames :
    release(p, n, FALSE) /\ UNCHANGED componentVars

DoTickFire ==
  \E p \in Procs, n \in ValidNames :
    TickFire(p, n) /\ UNCHANGED componentVars

DoTickLand ==
  \E p \in Procs, n \in ValidNames :
    TickLand(p, n) /\ UNCHANGED componentVars

Next ==
  \/ DoAcquire
  \/ DoAcquireNoExpiry
  \/ DoRelease
  \/ DoTickFire
  \/ DoTickLand
  \/ Advance

Spec == Init /\ [][Next]_vars

NextLive ==
  \/ DoAcquire
  \/ DoAcquireNoExpiry
  \/ DoRelease
  \/ DoTickFire
  \/ DoTickLand
  \/ AdvanceTimely

\* the renewers are live: every due tick fires and lands before time passes
SpecLive == Init /\ [][NextLive]_vars

\* the calls of the facade with any name, valid or not, on a store that may
\* be unavailable
CallAcquire ==
  \E p \in Procs, n \in Names, m \in MaxAges, i \in Periods, f \in BOOLEAN :
    acquire(p, n, m, i, f) /\ UNCHANGED componentVars

CallAcquireNoExpiry ==
  \E p \in Procs, n \in Names, f \in BOOLEAN :
    acquireNoExpiry(p, n, f) /\ UNCHANGED componentVars

CallRelease ==
  \E p \in Procs, n \in Names, f \in BOOLEAN :
    release(p, n, f) /\ UNCHANGED componentVars

NextErr ==
  \/ CallAcquire
  \/ CallAcquireNoExpiry
  \/ CallRelease

\* error handling: invalid names and storage failures; the outcome of a call
\* that fails does not depend on the clock, which stands still here
SpecErr == Init /\ [][NextErr]_vars

\* ------------------------------------------------------------------ claims
\* the record of name is present and not reclaimable for maxAge
Unexpired(name, maxAge) ==
  /\ store[name].present
  /\ ~Reclaimable(store[name], maxAge, now)

\* C1: mutual exclusion.  Within one unexpired window of name (the record is
\* present, it was not released and no more than maxAge elapsed since its
\* updatedAt) no acquire(name, maxAge, renewalInterval) returns acquired=true,
\* so of the calls that interleave in one window only the one that opened it
\* is a winner: a winning call leaves the record updated at now, and every
\* winning call found the record absent or expired.
C1_MutualExclusion ==
  [][\A p \in Procs, n \in ValidNames, m \in MaxAges, i \in Periods :
       acquire(p, n, m, i, FALSE) =>
         /\ Unexpired(n, m) => ~handle'[p][n].acquired
         /\ handle'[p][n].acquired =>
              store'[n].present /\ store'[n].updatedAt = now]_vars

\* two calls met in one window: one process holds a handle with acquired=true,
\* the call of the other just returned acquired=false
C1_Witness ==
  \E p, q \in Procs, n \in ValidNames :
    /\ p # q
    /\ lastOp = OpRecord("acquire", q, n, "returned", FALSE,
                         <<"dao.acquire", "updater.scheduleForUpdate">>,
                         <<"tryAcquire">>)
    /\ handle[p][n].acquired
    /\ handle[q][n].returned /\ ~handle[q][n].acquired
    /\ Unexpired(n, handle[q][n].maxAge)

\* C2: acquire(name, maxAge, renewalInterval) registers a renewal task if and
\* only if tryAcquire returned acquired=true: a call that returns
\* acquired=false leaves the renewal registry of its process as it was.
C2_RenewalIffAcquired ==
  [][\A p \in Procs, n \in ValidNames, m \in MaxAges, i \in Periods :
       acquire(p, n, m, i, FALSE) =>
         IF handle'[p][n].acquired
           THEN registry'[p][n].active /\ registry'[p][n].interval = i
           ELSE registry'[p] = registry[p]]_vars

\* C3: expiry reclaim.  An acquire(name, maxAge, ..) that finds the record of
\* name older than maxAge returns acquired=true and sets updatedAt to now,
\* whoever holds a handle on name.
C3_ExpiryReclaim ==
  [][\A p \in Procs, n \in ValidNames, m \in MaxAges, i \in Periods :
       (/\ store[n].present
        /\ now - store[n].updatedAt > m
        /\ acquire(p, n, m, i, FALSE)) =>
         /\ handle'[p][n].acquired
         /\ store'[n].present
         /\ store'[n].updatedAt = now]_vars

\* the holder's renewal interval exceeds its maxAge, its renewer is alive and
\* its handle says acquired; the other process has just reclaimed the record
C3_Witness ==
  \E p, q \in Procs, n \in ValidNames :
    /\ p # q
    /\ handle[p][n].acquired /\ handle[p][n].maxAge # NoExpiry
    /\ registry[p][n].active
    /\ registry[p][n].interval > handle[p][n].maxAge
    /\ handle[q][n].acquired
    /\ lastOp.op = "acquire" /\ lastOp.proc = q /\ lastOp.name = n
    /\ lastOp.outcome = "returned" /\ lastOp.acquired
    /\ store[n].createdAt < store[n].updatedAt
    /\ store[n].updatedAt = now

\* some acquire step on name, of either variant
AcquireStep(name) ==
  \/ \E p \in Procs, m \in MaxAges, i \in Periods, f \in BOOLEAN :
       acquire(p, name, m, i, f)
  \/ \E p \in Procs, f \in BOOLEAN : acquireNoExpiry(p, name, f)

\* C4: no residue.  A release(name) that returns leaves no record of name; no
\* step but an acquire of name brings a record back, whatever renewal ticks
\* are scheduled or in flight; and an acquire(name, maxAge, interval) that
\* finds no record returns acquired=true, whichever process issues it.
C4_NoResidue ==
  [][\A n \in ValidNames :
       /\ \A p \in Procs : release(p, n, FALSE) => ~store'[n].present
       /\ (~store[n].present /\ ~AcquireStep(n)) => ~store'[n].present
       /\ \A p \in Procs, m \in MaxAges, i \in Periods :
            (~store[n].present /\ acquire(p, n, m, i, FALSE)) =>
              handle'[p][n].acquired]_vars

\* a tick of the process that released is still in flight, and the acquire of
\* the other process that followed returned acquired=true
C4_Witness ==
  \E p, q \in Procs, n \in ValidNames :
    /\ p # q
    /\ inflight[p][n] /\ ~registry[p][n].active /\ ~handle[p][n].returned
    /\ handle[q][n].acquired
    /\ lastOp.op = "acquire" /\ lastOp.proc = q /\ lastOp.name = n
    /\ lastOp.outcome = "returned" /\ lastOp.acquired
    /\ store[n].createdAt = now

\* p believes it holds name under a correct configuration, and its renewer
\* runs the task its acquire registered: renewalInterval < maxAge
HeldLive(p, name) ==
  /\ handle[p][name].acquired
  /\ handle[p][name].maxAge # NoExpiry
  /\ registry[p][name].active
  /\ registry[p][name].interval < handle[p][name].maxAge

\* the record of name is not reclaimable under the maxAge of p's handle
Fresh(p, name) == Unexpired(name, handle[p][name].maxAge)

ReleaseStep(name) == \E q \in Procs, f \in BOOLEAN : release(q, name, f)

\* the three parts of the liveness of a held lease, for the steps that are
\* not in Excluded: a winning acquire starts the renewal with its interval and
\* leaves the lease fresh; while p holds the lease with a live renewer the
\* lease stays fresh; and meanwhile no other caller's acquire with p's maxAge
\* returns acquired=true
HeldLeaseStaysFresh(Excluded(_, _)) ==
  \A p \in Procs, n \in ValidNames :
    /\ \A m \in MaxAges, i \in Periods :
         (acquire(p, n, m, i, FALSE) /\ handle'[p][n].acquired) =>
           /\ registry'[p][n].active /\ registry'[p][n].interval = i
           /\ Fresh(p, n)'
    /\ (/\ HeldLive(p, n) /\ Fresh(p, n)
        /\ HeldLive(p, n)' /\ handle'[p][n] = handle[p][n]
        /\ ~Excluded(p, n)) => Fresh(p, n)'
    /\ \A q \in Procs \ {p}, i \in Periods :
         (/\ HeldLive(p, n) /\ Fresh(p, n)
          /\ acquire(q, n, handle[p][n].maxAge, i, FALSE)) =>
           ~handle'[q][n].acquired

ReleaseByHolder(p, name) == \E f \in BOOLEAN : release(p, name, f)

ReleaseByAnyone(p, name) == ReleaseStep(name)

\* C5 as claimed: with renewalInterval < maxAge and ticks that fire every
\* renewalInterval, from the acquire until the holder itself calls
\* release(name) the lease is never reclaimable and no other caller's
\* acquire(name, maxAge, ..) returns acquired=true.
C5_Original == [][HeldLeaseStaysFresh(ReleaseByHolder)]_vars

\* C5 as amended: the same, until any process calls release(name).
C5_LiveLeaseNeverExpires == [][HeldLeaseStaysFresh(ReleaseByAnyone)]_vars

\* the lease was created more than maxAge ago, a tick between its creation
\* and now has kept it fresh, and the other process's acquire with the same
\* maxAge has just been refused
C5_Witness ==
  \E p, q \in Procs, n \in ValidNames :
    /\ p # q
    /\ HeldLive(p, n) /\ Fresh(p, n)
    /\ now - store[n].createdAt > handle[p][n].maxAge
    /\ store[n].createdAt < store[n].updatedAt /\ store[n].updatedAt < now
    /\ handle[q][n].returned /\ ~handle[q][n].acquired
    /\ handle[q][n].maxAge = handle[p][n].maxAge
    /\ lastOp.op = "acquire" /\ lastOp.proc = q /\ lastOp.name = n
    /\ lastOp.outcome = "returned" /\ ~lastOp.acquired

RenewerCalls == {"updater.scheduleForUpdate", "updater.stopUpdate"}

\* C6: release(name) cancels the local renewal task before it calls the
\* store's clear, and a clear that fails with a storage error does not undo or
\* skip the cancellation: after release(name) has returned or failed, the
\* calling process has no renewal task for name.
C6_ReleaseAlwaysCancels ==
  [][\A p \in Procs, n \in ValidNames, f \in BOOLEAN :
       release(p, n, f) =>
         /\ ~registry'[p][n].active
         /\ lastOp'.calls = <<"updater.stopUpdate", "dao.release">>
         /\ f => lastOp'.outcome = "StorageUnavailable" /\ store' = store]_vars

\* the release of p failed with StorageUnavailable on its clear: the record is
\* still there, p has no renewal task, and no other process has a handle
C6_Witness ==
  \E p \in Procs, n \in ValidNames :
    /\ lastOp = OpRecord("release", p, n, "StorageUnavailable", FALSE,
                         <<"updater.stopUpdate", "dao.release">>, <<"clear">>)
    /\ store[n].present
    /\ ~registry[p][n].active
    /\ \A q \in Procs \ {p} : ~handle[q][n].returned

\* C7: when tryAcquire fails with StorageUnavailable during
\* acquire(name, maxAge, renewalInterval), the error reaches the caller and
\* the local state is as before the call: no renewal task is registered and
\* the renewal registry, the handles and the store are unchanged.
C7_FailedAcquireLeavesNothing ==
  [][\A p \in Procs, n \in ValidNames, m \in MaxAges, i \in Periods :
       acquire(p, n, m, i, TRUE) =>
         /\ lastOp'.outcome = "StorageUnavailable"
         /\ registry' = registry
         /\ handle' = handle
         /\ store' = store]_vars

\* the acquire of p failed with StorageUnavailable while the other process
\* holds the name with a renewal task: p has no task and no handle
C7_Witness ==
  \E p, q \in Procs, n \in ValidNames :
    /\ p # q
    /\ lastOp = OpRecord("acquire", p, n, "StorageUnavailable", FALSE,
                         <<"dao.acquire">>, <<"tryAcquire">>)
    /\ ~registry[p][n].active
    /\ ~handle[p][n].returned
    /\ handle[q][n].acquired /\ registry[q][n].active

\* the call that lastOp records was rejected with InvalidName before any
\* storage transaction, and it left the store and the registry untouched
RejectedUnchanged ==
  /\ lastOp'.outcome = "InvalidName"
  /\ lastOp'.storage = <<>>
  /\ store' = store
  /\ registry' = registry

\* C8 as claimed: an empty name passed to acquire (either variant) or release
\* is rejected with InvalidName before any store operation or renewer
\* operation is invoked; the store and the renewal registry are unchanged.
C8_Original ==
  [][\A p \in Procs, n \in Names \ ValidNames, f \in BOOLEAN :
       ((\E m \in MaxAges, i \in Periods : acquire(p, n, m, i, f))
        \/ acquireNoExpiry(p, n, f)
        \/ release(p, n, f)) =>
         /\ RejectedUnchanged
         /\ \A k \in DOMAIN lastOp'.calls :
              lastOp'.calls[k] \notin RenewerCalls]_vars

\* C8 as amended: the name is rejected with InvalidName before any storage
\* transaction runs and the store and the renewal registry are unchanged;
\* acquire invokes no renewer operation, but release has invoked
\* updater.stopUpdate(name) before dao.release rejects the name.
C8_InvalidNameRejected ==
  [][\A p \in Procs, n \in Names \ ValidNames, f \in BOOLEAN :
       /\ ((\E m \in MaxAges, i \in Periods : acquire(p, n, m, i, f))
           \/ acquireNoExpiry(p, n, f)) =>
            RejectedUnchanged /\ lastOp'.calls = <<"dao.acquire">>
       /\ release(p, n, f) =>
            /\ RejectedUnchanged
            /\ lastOp'.calls = <<"updater.stopUpdate", "dao.release">>]_vars

\* an acquire of the empty name has just been rejected while a valid name is
\* held with a renewal task; nothing is stored or scheduled under the empty name
C8_Witness ==
  \E p, q \in Procs, n \in ValidNames, e \in Names \ ValidNames :
    /\ lastOp = OpRecord("acquire", p, e, "InvalidName", FALSE,
                         <<"dao.acquire">>, <<>>)
    /\ store[n].present /\ registry[q][n].active
    /\ ~store[e].present
    /\ \A r \in Procs : ~registry[r][e].active /\ ~handle[r][e].returned

\* the call recorded last is the acquire(name) that created the record of name
JustAcquiredNoExpiry(name) ==
  /\ lastOp.op = "acquireNoExpiry" /\ lastOp.name = name
  /\ lastOp.outcome = "returned" /\ lastOp.acquired

\* the parts of C9 that the original and the amended statement share:
\* acquire(name) registers no renewal task, and an acquire(name) on an
\* existing record returns acquired=false and leaves the record as it is
NoExpiryKeepsOut ==
  \A q \in Procs, n \in ValidNames :
    acquireNoExpiry(q, n, FALSE) =>
      /\ registry' = registry
      /\ store[n].present => ~handle'[q][n].acquired /\ store' = store

C10_ReleaseByNameOnly ==
  [][\A q \in Procs, n \in ValidNames :
       /\ release(q, n, FALSE) =>
            /\ lastOp'.outcome = "returned"
            /\ ~store'[n].present
            /\ \A p \in Procs \ {q} :
                 handle'[p] = handle[p] /\ registry'[p] = registry[p]
       /\ ~store[n].present =>
            /\ \A m \in MaxAges, i \in Periods :
                 acquire(q, n, m, i, FALSE) => handle'[q][n].acquired
            /\ acquireNoExpiry(q, n, FALSE) => handle'[q][n].acquired]_vars

\* q, which holds no handle, has just released the name that p believes it
\* holds: the record is gone while p's handle and renewal task remain
C10_Witness ==
  \E p, q \in Procs, n \in ValidNames :
    /\ p # q
    /\ lastOp = OpRecord("release", q, n, "returned", FALSE,
                         <<"updater.stopUpdate", "dao.release">>, <<"clear">>)
    /\ ~store[n].present
    /\ handle[p][n].acquired /\ registry[p][n].active
    /\ handle[q][n] = NoHandle

\* the state that release(name) by p leaves: every variable but lastOp
AfterRelease == <<now, store, registry, inflight, handle>>

\* C11: release(name) is idempotent.  Called for a name that has no renewal
\* task in the calling process and no record in the store it raises no error
\* and leaves the store and the renewal registry unchanged; and a second
\* release(name) right after a first one by the same process leaves the state
\* the first one left.
C11_ReleaseIdempotent ==
  [][\A p \in Procs, n \in ValidNames :
       release(p, n, FALSE) =>
         /\ (~registry[p][n].active /\ ~store[n].present) =>
              /\ lastOp'.outcome = "returned"
              /\ store' = store
              /\ registry' = registry
         /\ (lastOp.op = "release" /\ lastOp.proc = p /\ lastOp.name = n) =>
              /\ lastOp'.outcome = "returned"
              /\ AfterRelease' = AfterRelease]_vars

\* p has released a name that nobody has a record, a task or a handle for
C11_Witness ==
  \E p \in Procs, n \in ValidNames :
    /\ lastOp = OpRecord("release", p, n, "returned", FALSE,
                         <<"updater.stopUpdate", "dao.release">>, <<"clear">>)
    /\ ~store[n].present
    /\ \A q \in Procs :
         ~registry[q][n].active /\ ~inflight[q][n] /\ handle[q][n] = NoHandle

FacadeOps == {"acquire", "acquireNoExpiry", "release"}

\* C12: lease loss stops renewal.  A tick whose touch(name) finds no record
\* records the loss and ends the renewal task of its process for name; without
\* a task no further tick for name is issued, and a task exists again only
\* through a new scheduleForUpdate, which is an acquire(name, ..) of that
\* process; no call of acquire or release ends with an error.
C12_LeaseLossStopsRenewal ==
  [][\A p \in Procs, n \in ValidNames :
       /\ (TickLand(p, n) /\ ~store[n].present) =>
            /\ lastOp' = OpRecord("tick", p, n, "LeaseLost", FALSE,
                                  <<"dao.update">>, <<"touch">>)
            /\ ~registry'[p][n].active
            /\ ~inflight'[p][n]
       /\ (~registry[p][n].active /\ ~inflight[p][n]) =>
            /\ ~inflight'[p][n]
            /\ ~TickLand(p, n)
            /\ registry'[p][n].active =>
                 \E m \in MaxAges, i \in Periods : acquire(p, n, m, i, FALSE)
       /\ (lastOp' # lastOp /\ lastOp'.op \in FacadeOps) =>
            lastOp'.outcome = "returned"]_vars

\* p believes it holds the name, its tick found the record released by the
\* other process: the loss is recorded and p has no renewal task any more
C12_Witness ==
  \E p \in Procs, n \in ValidNames :
    /\ lastOp = OpRecord("tick", p, n, "LeaseLost", FALSE,
                         <<"dao.update">>, <<"touch">>)
    /\ handle[p][n].acquired
    /\ ~registry[p][n].active /\ ~inflight[p][n]
    /\ ~store[n].present

\* the touches of p's renewal task for name that can still reach the store:
\* the tick in flight, if there is one
PendingTouches(p, name) == IF inflight[p][name] THEN 1 ELSE 0

\* C13: cancellation racing with a tick.  A release(name) that meets a tick
\* in flight leaves the registry of its process without a task for name and
\* at most the one tick in flight still to land; while there is no task no
\* new tick is issued, so every touch that lands uses up the one pending
\* touch and the cancelled task sends at most one after the cancellation.
C13_CancelRacingTick ==
  [][\A p \in Procs, n \in ValidNames :
       /\ release(p, n, FALSE) =>
            /\ ~registry'[p][n].active
            /\ PendingTouches(p, n)' = PendingTouches(p, n)
       /\ (~registry[p][n].active /\ ~registry'[p][n].active) =>
            /\ PendingTouches(p, n)' <= PendingTouches(p, n)
            /\ TickLand(p, n) =>
                 /\ PendingTouches(p, n) = 1
                 /\ PendingTouches(p, n)' = 0]_vars

\* the tick that was in flight when p released the name has landed on the
\* record that the other process acquired meanwhile; p has no task left
C13_Witness ==
  \E p, q \in Procs, n \in ValidNames :
    /\ p # q
    /\ lastOp = OpRecord("tick", p, n, "returned", FALSE,
                         <<"dao.update">>, <<"touch">>)
    /\ handle[p][n] = NoHandle
    /\ ~registry[p][n].active /\ ~inflight[p][n]
    /\ handle[q][n].acquired /\ store[n].present

\* the tick of p for name recorded last found no record
TickFoundNoRecord(name) ==
  /\ lastOp.op = "tick" /\ lastOp.name = name
  /\ lastOp.outcome = "LeaseLost"

\* C14: touch never creates a record.  A tick that lands on an absent record
\* gets ok=false and leaves the record absent, so the acquire that follows a
\* tick landed after release(name) finds no record and returns
\* acquired=true with a record created at now.
C14_TouchNeverCreates ==
  [][\A p \in Procs, n \in ValidNames :
       /\ (TickLand(p, n) /\ ~store[n].present) =>
            ~store'[n].present /\ TickFoundNoRecord(n)'
       /\ \A m \in MaxAges, i \in Periods :
            (TickFoundNoRecord(n) /\ acquire(p, n, m, i, FALSE)) =>
              /\ handle'[p][n].acquired
              /\ store'[n] = Lease(now, now)]_vars

\* p released the name with a tick in flight; the tick has landed on the
\* cleared record and the name is still free
C14_Witness ==
  \E p \in Procs, n \in ValidNames :
    /\ lastOp = OpRecord("tick", p, n, "LeaseLost", FALSE,
                         <<"dao.update">>, <<"touch">>)
    /\ handle[p][n] = NoHandle
    /\ ~store[n].present
    /\ \A q \in Procs : ~handle[q][n].acquired

\* C15: a losing acquire has no effect on the store.  When
\* acquire(name, maxAge, ..) finds a record with now - updatedAt <= maxAge it
\* returns acquired=false, its only storage transaction is the tryAcquire,
\* and the record has the createdAt and the updatedAt it had before the call.
C15_LosingAcquireNoEffect ==
  [][\A q \in Procs, n \in ValidNames, m \in MaxAges, i \in Periods :
       (acquire(q, n, m, i, FALSE) /\ Unexpired(n, m)) =>
         /\ lastOp'.outcome = "returned" /\ ~lastOp'.acquired
         /\ lastOp'.storage = <<"tryAcquire">>
         /\ store'[n].createdAt = store[n].createdAt
         /\ store'[n].updatedAt = store[n].updatedAt
         /\ store' = store]_vars

\* the acquire of q has just lost against a record that was created and
\* last refreshed at earlier times, and both timestamps are still those
C15_Witness ==
  \E q \in Procs, n \in ValidNames :
    /\ lastOp = OpRecord("acquire", q, n, "returned", FALSE,
                         <<"dao.acquire", "updater.scheduleForUpdate">>,
                         <<"tryAcquire">>)
    /\ store[n].present
    /\ store[n].createdAt < store[n].updatedAt
    /\ store[n].updatedAt < now
    /\ Unexpired(n, handle[q][n].maxAge)

\* C16: a lease is never mutated by a process that does not believe it holds
\* it.  Every tick of p that refreshes the record of name lands while the
\* most recent acquire of name by p returned acquired=true and p has not
\* released name since; a tick of a process whose acquire returned
\* acquired=false leaves the record as it is.
C16_TouchOnlyByBeliever ==
  [][\A p \in Procs, n \in ValidNames :
       (TickLand(p, n) /\ store[n].present) =>
         /\ handle[p][n].acquired
         /\ (handle[p][n].returned /\ ~handle[p][n].acquired) =>
              store' = store]_vars

\* ------------------------------------------- component: BitbucketProjectCreate
\* the API calls the user's actions may have waiting for a response at once,
\* and the projects one page imports
MaxPending == 2
MaxCreated == 1

Queries == {"", "a", "b"}
Tokens == {"", "t"}

\* an asynchronous operation of the component that waits for a promise: the
\* method that runs, the call it awaits, whether that call went to the API
\* (or is a Promise.resolve), and the query of a search
Pending(op, await, api, query) ==
  [op |-> op, await |-> await, api |-> api, query |-> query]

\* lines 118-126 and 128-136: without a bitbucketSetting the promise is an
\* already resolved one and no request is sent
AwaitWithSetting(op, await) == Pending(op, await, state.bitbucketSetting, "")

\* line 94 and the call on line 96
BeginFetchInitialData(st) == [st EXCEPT !.loading = TRUE]

FetchAwaitingToken ==
  AwaitWithSetting("fetchInitialData", "checkPersonalAccessToken")


\* lines 108-115 writing only the values that are defined, so that the
\* projects and repositories of an earlier run survive a failed one
EndFetchInitialData_keepsStale(st, patIsValid, projects, projectRepositories) ==
  IF mounted
    THEN [st EXCEPT !.patIsValid = patIsValid,
                    !.projects = IF projects = Undefined THEN @ ELSE projects,
                    !.projectRepositories =
                       IF projectRepositories = Undefined THEN @
                       ELSE projectRepositories,
                    !.loading = FALSE]
    ELSE st

\* lines 108-115
EndFetchInitialData(st, patIsValid, projects, projectRepositories) ==
  IF mounted
    THEN [st EXCEPT !.patIsValid = patIsValid,
                    !.projects = projects,
                    !.projectRepositories = projectRepositories,
                    !.loading = FALSE]
    ELSE st

\* componentDidMount
componentDidMount ==
  /\ lifecycle = "constructed"
  /\ lifecycle' = "mounted"
  /\ mounted' = TRUE
  /\ state' = BeginFetchInitialData(state)
  /\ pending' = pending \cup {FetchAwaitingToken}
  /\ UNCHANGED <<onProjectCreate, searchLog>>

\* componentDidUpdate when the first bitbucket settings arrive in the props
componentDidUpdate ==
  /\ lifecycle = "mounted"
  /\ ~state.bitbucketSetting
  /\ state' = BeginFetchInitialData([state EXCEPT !.bitbucketSetting = TRUE])
  /\ pending' = pending \cup
       {Pending("fetchInitialData", "checkPersonalAccessToken", TRUE, "")}
  /\ UNCHANGED <<lifecycle, mounted, onProjectCreate, searchLog>>

\* componentWillUnmount
componentWillUnmount ==
  /\ lifecycle = "mounted"
  /\ lifecycle' = "unmounted"
  /\ mounted' = FALSE
  /\ UNCHANGED <<state, pending, onProjectCreate, searchLog>>

\* the answers of the token check: the status, or a rejected promise; a
\* Promise.resolve(false) only answers false
TokenResponses(r) == IF r.api THEN {"true", "false", "failed"} ELSE {"false"}

\* fetchInitialData resumes after line 96 with the answer of the token check
FetchTokenChecked(r, response) ==
  LET patIsValid == IF response = "true" THEN "true" ELSE "false" IN
  /\ r \in pending
  /\ r.op = "fetchInitialData" /\ r.await = "checkPersonalAccessToken"
  /\ response \in TokenResponses(r)
  /\ IF patIsValid = "true"
       THEN \* line 100
         /\ pending' = (pending \ {r}) \cup
              {AwaitWithSetting("fetchInitialData", "fetchBitbucketProjects")}
         /\ state' = state
       ELSE
         /\ pending' = pending \ {r}
         /\ state' = EndFetchInitialData(state, patIsValid, Undefined, Undefined)
  /\ UNCHANGED <<lifecycle, mounted, onProjectCreate, searchLog>>

ProjectsResponses(r) == IF r.api THEN {"some", "empty", "failed"} ELSE {"failed"}

\* fetchInitialData resumes after line 100 with the list of projects
FetchProjectsFetched(r, response) ==
  LET projects == IF response = "failed" THEN Undefined ELSE response IN
  /\ r \in pending
  /\ r.op = "fetchInitialData" /\ r.await = "fetchBitbucketProjects"
  /\ response \in ProjectsResponses(r)
  /\ IF projects = "some"
       THEN \* line 105
         /\ pending' = (pending \ {r}) \cup
              {AwaitWithSetting("fetchInitialData", "fetchBitbucketRepositories")}
         /\ state' = state
       ELSE
         /\ pending' = pending \ {r}
         /\ state' = EndFetchInitialData(state, "true", projects, Undefined)
  /\ UNCHANGED <<lifecycle, mounted, onProjectCreate, searchLog>>

RepositoriesResponses(r) == IF r.api THEN {"some", "failed"} ELSE {"failed"}

\* fetchInitialData resumes after line 105 with the repositories
FetchRepositoriesFetched(r, response) ==
  LET projectRepositories == IF response = "failed" THEN Undefined ELSE response IN
  /\ r \in pending
  /\ r.op = "fetchInitialData" /\ r.await = "fetchBitbucketRepositories"
  /\ response \in RepositoriesResponses(r)
  /\ pending' = pending \ {r}
  /\ state' = EndFetchInitialData(state, "true", "some", projectRepositories)
  /\ UNCHANGED <<lifecycle, mounted, onProjectCreate, searchLog>>

\* the user acts on the page only while it is mounted, and starts a new API
\* call only while fewer than MaxPending are waiting
UserCanAct == lifecycle = "mounted"
UserCanCall == UserCanAct /\ Cardinality(pending) < MaxPending

\* handlePersonalAccessTokenCreate(token), lines 187-195
handlePersonalAccessTokenCreate(token) ==
  /\ UserCanCall
  /\ IF ~state.bitbucketSetting \/ token = ""
       THEN UNCHANGED <<state, pending>>
       ELSE
         /\ state' = [state EXCEPT !.submittingToken = "true",
                                   !.tokenValidationFailed = FALSE]
         /\ pending' = pending \cup
              {Pending("handlePersonalAccessTokenCreate",
                       "setAlmPersonalAccessToken", TRUE, "")}
  /\ UNCHANGED <<lifecycle, mounted, onProjectCreate, searchLog>>

\* lines 205-209
TokenCreateFailed(st) ==
  IF mounted THEN [st EXCEPT !.submittingToken = "false"] ELSE st

\* setAlmPersonalAccessToken answered: line 196 on success, the catch otherwise
TokenSet(r, response) ==
  /\ r \in pending
  /\ r.op = "handlePersonalAccessTokenCreate"
  /\ r.await = "setAlmPersonalAccessToken"
  /\ response \in {"ok", "failed"}
  /\ IF response = "ok"
       THEN
         /\ pending' = (pending \ {r}) \cup
              {AwaitWithSetting("handlePersonalAccessTokenCreate",
                                "checkPersonalAccessToken")}
         /\ state' = state
       ELSE
         /\ pending' = pending \ {r}
         /\ state' = TokenCreateFailed(state)
  /\ UNCHANGED <<lifecycle, mounted, onProjectCreate, searchLog>>


\* the then-callback of lines 197-204 without the test of this.mounted
TokenCreated_unguarded(st, patIsValid) ==
  LET submitted == [st EXCEPT !.submittingToken = "false",
                              !.patIsValid = patIsValid,
                              !.tokenValidationFailed = (patIsValid = "false")]
  IN IF patIsValid = "true" THEN BeginFetchInitialData(submitted)
                            ELSE submitted

\* lines 197-204: the new token was checked
TokenCreated(st, patIsValid) ==
  IF mounted
    THEN LET submitted == [st EXCEPT !.submittingToken = "false",
                                     !.patIsValid = patIsValid,
                                     !.tokenValidationFailed = (patIsValid = "false")]
         IN IF patIsValid = "true" THEN BeginFetchInitialData(submitted)
                                   ELSE submitted
    ELSE st

\* the check of the new token answered
TokenChecked(r, response) ==
  /\ r \in pending
  /\ r.op = "handlePersonalAccessTokenCreate"
  /\ r.await = "checkPersonalAccessToken"
  /\ response \in TokenResponses(r)
  /\ IF response = "failed"
       THEN
         /\ state' = TokenCreateFailed(state)
         /\ pending' = pending \ {r}
       ELSE
         /\ state' = TokenCreated(state, response)
         /\ pending' = (pending \ {r}) \cup
              (IF mounted /\ response = "true" THEN {FetchAwaitingToken} ELSE {})
  /\ UNCHANGED <<lifecycle, mounted, onProjectCreate, searchLog>>

\* handleImportRepository, lines 212-224
handleImportRepository ==
  /\ UserCanCall
  /\ onProjectCreate < MaxCreated
  /\ IF ~state.bitbucketSetting \/ ~state.selectedRepository
       THEN UNCHANGED <<state, pending>>
       ELSE
         /\ state' = [state EXCEPT !.importing = TRUE]
         /\ pending' = pending \cup
              {Pending("handleImportRepository",
                       "importBitbucketServerProject", TRUE, "")}
  /\ UNCHANGED <<lifecycle, mounted, onProjectCreate, searchLog>>

\* lines 225-235: the import answered
Imported(r, response) ==
  /\ r \in pending
  /\ r.op = "handleImportRepository"
  /\ response \in {"ok", "failed"}
  /\ pending' = pending \ {r}
  /\ state' = IF mounted THEN [state EXCEPT !.importing = FALSE] ELSE state
  /\ onProjectCreate' =
       IF mounted /\ response = "ok" THEN onProjectCreate + 1 ELSE onProjectCreate
  /\ UNCHANGED <<lifecycle, mounted, searchLog>>

\* handleSearch(query), lines 238-251
handleSearch(query) ==
  /\ UserCanCall
  /\ IF ~state.bitbucketSetting
       THEN UNCHANGED <<state, pending, searchLog>>
       ELSE
         /\ searchLog' = [searchLog EXCEPT !.last = query]
         /\ IF query = ""
              THEN
                /\ state' = [state EXCEPT !.searching = FALSE,
                                          !.searchResults = Undefined,
                                          !.selectedRepository = FALSE]
                /\ pending' = pending
              ELSE
                /\ state' = [state EXCEPT !.searching = TRUE,
                                          !.selectedRepository = FALSE]
                /\ pending' = pending \cup
                     {Pending("handleSearch",
                              "searchForBitbucketServerRepositories", TRUE, query)}
  /\ UNCHANGED <<lifecycle, mounted, onProjectCreate>>

\* lines 252-261: a search answered with the repositories that match its query
Searched(r, response) ==
  /\ r \in pending
  /\ r.op = "handleSearch"
  /\ response \in {"ok", "failed"}
  /\ pending' = pending \ {r}
  /\ state' =
       IF ~mounted THEN state
       ELSE IF response = "ok"
         THEN [state EXCEPT !.searching = FALSE, !.searchResults = r.query]
         ELSE [state EXCEPT !.searching = FALSE]
  /\ searchLog' = [searchLog EXCEPT !.failed = @ \/ response = "failed"]
  /\ UNCHANGED <<lifecycle, mounted, onProjectCreate>>

\* handleSelectRepository(selectedRepository), lines 264-266
handleSelectRepository ==
  /\ UserCanAct
  /\ state' = [state EXCEPT !.selectedRepository = TRUE]
  /\ UNCHANGED <<lifecycle, mounted, pending, onProjectCreate, searchLog>>

SemaphoreVars == <<now, store, registry, inflight, handle, lastOp>>

\* the steps of the page: the lifecycle, the user's actions and the
\* responses of the API, each leaving the semaphores alone
DidMount == componentDidMount /\ UNCHANGED SemaphoreVars

DidUpdate == componentDidUpdate /\ UNCHANGED SemaphoreVars

WillUnmount == componentWillUnmount /\ UNCHANGED SemaphoreVars

SubmitToken ==
  \E token \in Tokens :
    handlePersonalAccessTokenCreate(token) /\ UNCHANGED SemaphoreVars

ImportRepository == handleImportRepository /\ UNCHANGED SemaphoreVars

Search ==
  \E query \in Queries : handleSearch(query) /\ UNCHANGED SemaphoreVars

SelectRepository == handleSelectRepository /\ UNCHANGED SemaphoreVars

RespondFetchToken ==
  \E r \in pending, response \in {"true", "false", "failed"} :
    FetchTokenChecked(r, response) /\ UNCHANGED SemaphoreVars

RespondFetchProjects ==
  \E r \in pending, response \in {"some", "empty", "failed"} :
    FetchProjectsFetched(r, response) /\ UNCHANGED SemaphoreVars

RespondFetchRepositories ==
  \E r \in pending, response \in {"some", "failed"} :
    FetchRepositoriesFetched(r, response) /\ UNCHANGED SemaphoreVars

RespondTokenSet ==
  \E r \in pending, response \in {"ok", "failed"} :
    TokenSet(r, response) /\ UNCHANGED SemaphoreVars

RespondTokenCheck ==
  \E r \in pending, response \in {"true", "false", "failed"} :
    TokenChecked(r, response) /\ UNCHANGED SemaphoreVars

RespondImport ==
  \E r \in pending, response \in {"ok", "failed"} :
    Imported(r, response) /\ UNCHANGED SemaphoreVars

RespondSearch ==
  \E r \in pending, response \in {"ok", "failed"} :
    Searched(r, response) /\ UNCHANGED SemaphoreVars

NextPage ==
  \/ DidMount
  \/ DidUpdate
  \/ WillUnmount
  \/ SubmitToken
  \/ ImportRepository
  \/ Search
  \/ SelectRepository
  \/ RespondFetchToken
  \/ RespondFetchProjects
  \/ RespondFetchRepositories
  \/ RespondTokenSet
  \/ RespondTokenCheck
  \/ RespondImport
  \/ RespondSearch

\* the page is constructed with or without a bitbucket setting in its props
InitPage == SemaphoresInit /\ \E hasSetting \in BOOLEAN : constructor(hasSetting)

SpecPage == InitPage /\ [][NextPage]_vars

\* a run of fetchInitialData that is at its first await
StartsFetchInitialData(r) ==
  r.op = "fetchInitialData" /\ r.await = "checkPersonalAccessToken"

\* C18: after componentWillUnmount no response of an API call started by
\* fetchInitialData, handlePersonalAccessTokenCreate, handleImportRepository
\* or handleSearch changes the state of the component, starts a new
\* fetchInitialData or calls props.onProjectCreate.
C18_NoEffectAfterUnmount ==
  [][lifecycle = "unmounted" =>
       /\ state' = state
       /\ onProjectCreate' = onProjectCreate
       /\ \A r \in pending' \ pending : ~StartsFetchInitialData(r)]_vars

\* the page was unmounted while a new token was being submitted, and the
\* answers of setAlmPersonalAccessToken and of the token check have arrived
\* since: submittingToken is still true
C18_Witness ==
  /\ lifecycle = "unmounted"
  /\ state.submittingToken = "true"
  /\ \A r \in pending : r.op # "handlePersonalAccessTokenCreate"

\* every search has been answered, none with a failure, and the component
\* is still mounted
AllSearchesAnswered ==
  /\ lifecycle = "mounted"
  /\ searchLog.last # "none"
  /\ ~searchLog.failed
  /\ \A r \in pending : r.op # "handleSearch"

\* C19: for any sequence of handleSearch calls whose responses arrive in any
\* order while mounted, once all responses have arrived state.searchResults
\* is the result of the most recent call: the repositories found for the last
\* query, or undefined if the last call had an empty query.
C19_LatestSearchWins ==
  AllSearchesAnswered =>
    state.searchResults =
      IF searchLog.last = "" THEN Undefined ELSE searchLog.last

\* a run of fetchInitialData newly waits for the call `await`
NewlyAwaits(await) ==
  \E r \in pending' \ pending : r.op = "fetchInitialData" /\ r.await = await

\* the state a run of fetchInitialData leaves when it ends
EndsWith(patIsValid, projects, projectRepositories) ==
  /\ ~state'.loading
  /\ state'.patIsValid = patIsValid
  /\ state'.projects = projects
  /\ state'.projectRepositories = projectRepositories

\* C20: fetchInitialData requests the projects only after the token check
\* answered true and the repositories only after a non-empty list of projects
\* arrived; whichever of the three calls fails, a run that ends while the
\* component is mounted leaves loading=false, patIsValid=false when the token
\* check failed or answered false, and projects and projectRepositories
\* undefined for every step that was skipped or failed.
C20_FetchInitialDataSteps ==
  [][/\ NewlyAwaits("fetchBitbucketProjects") =>
          \E r \in pending : FetchTokenChecked(r, "true")
     /\ NewlyAwaits("fetchBitbucketRepositories") =>
          \E r \in pending : FetchProjectsFetched(r, "some")
     /\ \A r \in pending :
          /\ \A response \in {"false", "failed"} :
               (mounted /\ FetchTokenChecked(r, response)) =>
                 EndsWith("false", Undefined, Undefined)
          /\ (mounted /\ FetchProjectsFetched(r, "failed")) =>
               EndsWith("true", Undefined, Undefined)
          /\ (mounted /\ FetchProjectsFetched(r, "empty")) =>
               EndsWith("true", "empty", Undefined)
          /\ (mounted /\ FetchRepositoriesFetched(r, "failed")) =>
               EndsWith("true", "some", Undefined)
          /\ (mounted /\ FetchRepositoriesFetched(r, "some")) =>
               EndsWith("true", "some", "some")]_vars

\* every run of fetchInitialData has ended, the last one mounted and on a
\* failed request for the projects: the token is valid, nothing is loaded
\* and loading is over
C20_Witness ==
  /\ lifecycle = "mounted"
  /\ \A r \in pending : r.op # "fetchInitialData"
  /\ ~state.loading
  /\ state.patIsValid = "true"
  /\ state.projects = Undefined
  /\ state.projectRepositories = Undefined

====
